---------------------------- MODULE Spec2Model ----------------------------
(***************************************************************************)
(* Model of mutovis_control/mppt.py: the maximum power point tracker.      *)
(*                                                                         *)
(* Units.  Floats are modelled by exact integers on a grid:                *)
(*   voltage : 1 unit = Voc/3010, so that Voc/301 and 0.7*Voc are whole    *)
(*   current : 1 unit = 1 mA, measured currents are multiples of 10 so     *)
(*             that 1.1*Impp is whole                                      *)
(*   time    : 1 tick = 0.2 s, durations are whole seconds (multiples of   *)
(*             5 ticks) so that 0.2*duration is whole                      *)
(* An optional (None-able) attribute is a sequence: <<>> is None, <<x>> is *)
(* the value x.                                                            *)
(***************************************************************************)
EXTENDS Integers, Sequences, FiniteSets, TLC

VARIABLES
  \* ---- attributes of the mppt object (self) ----
  Voc, Isc, Vmpp, Impp,
  currentCompliance,        \* class attribute, line 15 (never read or written)
  has_current_compliance,   \* whether self.current_compliance exists at all
  current_compliance,       \* self.current_compliance when it exists
  t0,
  \* ---- frame of launch_tracker ----
  pc, duration, callback, NPLC, cc, initial_soak, q,
  \* ---- frame of really_dumb_tracker ----
  dV, tq, lImpp, lVmpp, angleMpp, v_set, highEdgeTouched, lowEdgeTouched,
  v_explore, i_explore, run_time, time_left, dwell,
  \* ---- outcome of the call ----
  ret, exc,
  \* ---- which_max_power call ----
  vector, wmp,
  \* ---- the instrument (self.sm) and the wall clock ----
  now, vout, ilast, call, cbLog,
  acq,                      \* the samples the instrument has delivered to
                            \* the call in progress (or just returned)
  \* ---- history variables ----
  runs, completed, trace

selfVars  == <<Voc, Isc, Vmpp, Impp, currentCompliance, has_current_compliance,
               current_compliance, t0>>
launchVars == <<duration, callback, NPLC, cc, initial_soak, q>>
trackVars == <<dV, tq, lImpp, lVmpp, angleMpp, v_set, highEdgeTouched,
               lowEdgeTouched, v_explore, i_explore, run_time, time_left, dwell>>
wmpVars   == <<vector, wmp>>
instVars  == <<now, vout, ilast, call, cbLog, acq>>
vars == <<selfVars, pc, launchVars, trackVars, ret, exc, wmpVars, instVars,
          runs, completed, trace>>

---------------------------------------------------------------------------
(* Bounds of the model *)
MaxRuns  == 2     \* launch_tracker calls in one behaviour
MaxBurst == 2     \* samples a measureUntil burst returns (at least 1)
MaxScan  == 3     \* samples of one exploration scan that are explored
MaxVec   == 3     \* length of the vectors given to which_max_power

(* Program constants, in model units *)
dwell_time     == 50     \* line 9: 10 s
ProvisionalCompliance == 40   \* line 58: 0.04 A
SoakLimit      == 50     \* line 69: duration <= 10 (s)
SoakMax        == 50     \* line 73: initial_soak = 10 (s)
StepDivisor    == 301    \* line 103
TanNum         == 90     \* line 106: tan(dAngleMax) = tan(7 deg) ~ 90/733
TanDen         == 733

None    == <<>>
Some(x) == <<x>>
Val(o)  == o[1]
\* a value that is a numpy scalar (an element of a numpy array) rather than
\* a Python float: division by zero does not raise on it
Np(x)   == <<x, 1>>
IsNp(o) == Len(o) = 2

(* Inputs *)
CURRENTS   == {-30, -20, 0}
VocSeeds   == {None, Some(3010)}
VmppSeeds  == {None, Some(0), Some(10), Some(3000), Some(3010)}
IscSeeds   == {None, Some(-33)}
Durations  == {0, 5, 20, 50, 103}
LaterDurations == {0}   \* durations of the calls after the first
NPLCs      == {-1, 1}
MeasureTicks == {2}   \* wall-clock ticks one measure() takes
Overrun    == {0}     \* ticks a measureUntil burst takes beyond t_dwell

NoCall == [op |-> "none", arg |-> 0, arg2 |-> 0]
Call(o, a, b) == [op |-> o, arg |-> a, arg2 |-> b]
NaN == <<0, 0>>

---------------------------------------------------------------------------
(* Arithmetic helpers *)
Abs(x) == IF x < 0 THEN -x ELSE x

\* n1/d1 < n2/d2 for d1, d2 > 0, by Euclid's algorithm (no products, so no
\* overflow of the 32-bit integers)
RECURSIVE FracLT(_, _, _, _)
FracLT(n1, d1, n2, d2) ==
  LET q1 == n1 \div d1
      q2 == n2 \div d2
      r1 == n1 % d1
      r2 == n2 % d2
  IN  IF q1 # q2 THEN q1 < q2
      ELSE IF r2 = 0 THEN FALSE
      ELSE IF r1 = 0 THEN TRUE
      ELSE FracLT(d2, r2, d1, r1)

\* An IEEE value is <<n, d>> with d >= 0: n/d when d > 0, +inf / -inf / nan
\* when d = 0 and n > 0 / n < 0 / n = 0.
IsNaN(x) == x[2] = 0 /\ x[1] = 0
ExtLT(x, y) ==
  IF x[2] = 0 THEN x[1] < 0 /\ ~(y[2] = 0 /\ y[1] < 0)
  ELSE IF y[2] = 0 THEN y[1] > 0
  ELSE FracLT(x[1], x[2], y[1], y[2])

\* x / y and x * y, x an IEEE value and y a number
ExtDiv(x, y) == IF y < 0 THEN <<-x[1], x[2] * (-y)>> ELSE <<x[1], x[2] * y>>
ExtMul(x, y) == <<x[1] * y, x[2]>>

\* lines 121, 134, 188: the argument of arctan, i/v*Voc/Isc evaluated left
\* to right.  arctan and rad2deg are increasing, so an angle is kept as its
\* tangent.
Slope(i, v, voc, isc) == ExtDiv(ExtMul(ExtDiv(<<i, 1>>, v), voc), isc)
\* a float division by zero raises ZeroDivisionError when both operands are
\* Python floats and yields inf/nan when one is a numpy scalar
DivByZero(v, isc) == v = 0 \/ isc = 0

\* line 138: dAngle > dAngleMax, i.e. thisAngle < angleMpp - 7 deg, with
\* tan(A - 7) = (tan A - t)/(1 + t tan A) when A - 7 > -90
dAngleAbove(a, b) ==
  /\ ~IsNaN(a) /\ ~IsNaN(b)
  /\ IF a[2] = 0
       THEN a[1] > 0 /\ ExtLT(b, <<TanDen, TanNum>>)
       ELSE /\ a[2] * TanDen + a[1] * TanNum > 0
            /\ ExtLT(b, <<a[1] * TanDen - TanNum * a[2],
                          a[2] * TanDen + a[1] * TanNum>>)
\* line 143: dAngle < -dAngleMax, i.e. thisAngle > angleMpp + 7 deg
dAngleBelow(a, b) ==
  /\ ~IsNaN(a) /\ ~IsNaN(b)
  /\ IF a[2] = 0
       THEN a[1] < 0 /\ ExtLT(<<-TanDen, TanNum>>, b)
       ELSE /\ a[2] * TanDen - a[1] * TanNum > 0
            /\ ExtLT(<<a[1] * TanDen + TanNum * a[2],
                       a[2] * TanDen - a[1] * TanNum>>, b)

---------------------------------------------------------------------------
(* which_max_power, lines 30-42 *)
\* variant: the product without the sign change
PowerUnsigned(e) == e[1] * e[2]

Power(e) == e[1] * e[2] * (-1)                       \* lines 36 and 181

\* numpy.argmax: a left-to-right scan that keeps the index of the largest
\* element seen so far and moves only on a strictly larger one
RECURSIVE ArgMaxFrom(_, _, _)
ArgMaxFrom(p, k, best) ==
  IF k > Len(p) THEN best
  ELSE ArgMaxFrom(p, k + 1, IF p[k] > p[best] THEN k ELSE best)

\* variant: an argmax that resolves ties to the last occurrence
ArgMaxLastTie(p) ==
  CHOOSE k \in 1..Len(p) : /\ \A j \in 1..Len(p) : p[j] <= p[k]
                           /\ \A j \in (k+1)..Len(p) : p[j] < p[k]

\* indices are 1-based here and 0-based in numpy: which_max_power returns
\* the 0-based one
ArgMax(p) == ArgMaxFrom(p, 2, 1)

which_max_power(vec) ==
  LET v == [k \in 1..Len(vec) |-> vec[k][1]]
      i == [k \in 1..Len(vec) |-> vec[k][2]]
      p == [k \in 1..Len(vec) |-> Power(<<v[k], i[k]>>)]         \* line 36
      maxIndex == ArgMax(p)
  IN  <<p[maxIndex], v[maxIndex], i[maxIndex], maxIndex - 1>>

---------------------------------------------------------------------------
(* launch_tracker helpers *)
SeedVmpp(vmpp, voc) ==                                      \* lines 54-55
  IF vmpp = None THEN Some((7 * Val(voc)) \div 10) ELSE vmpp

EffectiveCompliance(attr) ==                                \* lines 57-60
  IF attr = None THEN ProvisionalCompliance ELSE Val(attr)

\* variant: a soak whose 10 s case starts at duration = 10
InitialSoakStrict(d) ==
  IF d < SoakLimit THEN (d * 2) \div 10 ELSE SoakMax

InitialSoak(d) ==                                           \* lines 69-73
  IF d <= SoakLimit THEN (d * 2) \div 10 ELSE SoakMax

CommitCompliance(attr, impp) ==                             \* lines 77-78
  IF attr = None THEN Some(Abs(impp * 2)) ELSE attr

\* variant: Isc committed from every soak
CommitIscAlways(isc, impp) == Some((impp * 11) \div 10)

CommitIsc(isc, impp) ==                                     \* lines 79-81
  IF isc = None THEN Some((impp * 11) \div 10) ELSE isc

(* really_dumb_tracker helpers *)
\* variant: a coarser step
StepSizeCoarse(voc) == (2 * voc) \div StepDivisor

StepSize(voc) == voc \div StepDivisor                       \* line 103

\* variant: a dwell that ignores the time left
DwellLengthFixed(tl) == dwell_time

DwellLength(tl) ==                                          \* lines 201-204
  IF tl < dwell_time THEN tl ELSE dwell_time

\* variant: a loop that skips the dwell
AfterScanNoDwell(tl) ==
  IF tl <= 0 THEN "finish" ELSE "loop"

AfterScan(tl) ==                                            \* lines 195-196
  IF tl <= 0 THEN "finish" ELSE "dwell_set"

\* variant: a loop that still runs at the deadline itself
LoopTestInclusive(rt, d) == rt <= d

LoopTest(rt, d) == rt < d                                   \* line 116

\* variant: an estimate that follows every sample of the scan
EstimateFollowsSample(vmpp, impp, v, i) == <<Np(v), i>>

\* lines 128-135: a scan sample is unpacked into v and i; the estimate
\* <<Vmpp, Impp>> is not touched by it
EstimateAfterSample(vmpp, impp, v, i) == <<vmpp, impp>>

\* lines 138-146: the angle criterion; returns <<high, low, dV>>
AngleStep(hi, lo, step, above, below) ==
  LET hi1 == hi \/ above
      s1  == IF above THEN step * (-1) ELSE step
      lo1 == lo \/ below
      s2  == IF below THEN s1 * (-1) ELSE s1
  IN  <<hi1, lo1, s2>>

\* variant: the advance of line 149 without the boundary check
BoundaryStepOpen(vs0, step0, hi0, lo0, voc) == <<vs0 + step0, step0, hi0, lo0>>

\* lines 149-175: advance and physical boundary check;
\* returns <<v_set, dV, high, low>>
BoundaryStep(vs0, step0, hi0, lo0, voc) ==
  LET vs1 == vs0 + step0                                    \* line 149
  IN  IF (vs1 > 0 /\ step0 > 0) \/ (vs1 < 0 /\ step0 < 0)   \* line 150
      THEN
        LET a  == step0 > 0 /\ vs1 >= voc                   \* line 151
            hi1 == hi0 \/ a
            s1  == IF a THEN step0 * (-1) ELSE step0
            v1  == IF a THEN vs1 + s1 ELSE vs1
            b  == s1 < 0 /\ v1 <= voc                       \* line 157
            lo1 == lo0 \/ b
            s2  == IF b THEN s1 * (-1) ELSE s1
            v2  == IF b THEN v1 + s2 ELSE v1
        IN  <<v2, s2, hi1, lo1>>
      ELSE
        LET a  == step0 > 0 /\ vs1 >= 0                     \* line 165
            hi1 == hi0 \/ a
            s1  == IF a THEN step0 * (-1) ELSE step0
            v1  == IF a THEN vs1 + s1 ELSE vs1
            b  == s1 < 0 /\ v1 <= 0                         \* line 171
            lo1 == lo0 \/ b
            s2  == IF b THEN s1 * (-1) ELSE s1
            v2  == IF b THEN v1 + s2 ELSE v1
        IN  <<v2, s2, hi1, lo1>>

---------------------------------------------------------------------------
(* The instrument *)
\* a measureUntil burst: 1..MaxBurst samples [v, i, tx, status] at the
\* present output voltage, stamped with the time the burst ends.  The
\* leading samples repeat the instrument's latest reading i0, the last
\* sample reads any current.
Bursts(v, t, i0) ==
  { [k \in 1..n |-> <<v, IF k < n THEN i0 ELSE c, t, 0>>] :
      n \in 1..MaxBurst, c \in CURRENTS }

\* variant: the first sample of a burst instead of the last
First(s) == s[1]

Last(s) == s[Len(s)]

\* variant: a history that puts the tracker's samples before the soak's
HistoryTrackerFirst(soak, tracked) == tracked \o soak

\* lines 90-92: q.extend(pptv); return q
History(soak, tracked) == soak \o tracked

---------------------------------------------------------------------------
NoFrameL == /\ duration = 0 /\ callback = FALSE /\ NPLC = -1 /\ cc = 0
            /\ initial_soak = 0 /\ q = <<>>
ClearLaunch == /\ duration' = 0 /\ callback' = FALSE /\ NPLC' = -1 /\ cc' = 0
               /\ initial_soak' = 0 /\ q' = <<>>
ClearTrack == /\ dV' = 0 /\ tq' = <<>> /\ lImpp' = 0 /\ lVmpp' = None
              /\ angleMpp' = NaN /\ v_set' = 0
              /\ highEdgeTouched' = FALSE /\ lowEdgeTouched' = FALSE
              /\ v_explore' = <<>> /\ i_explore' = <<>>
              /\ run_time' = 0 /\ time_left' = 0 /\ dwell' = 0

\* variant: an exception that is swallowed, the step being tried again
RaiseAndRetry(e) == /\ pc' = pc /\ exc' = e /\ ret' = None
                    /\ UNCHANGED <<launchVars, trackVars, acq>>

\* an exception leaves the call: the frames are gone
Raise(e) == /\ pc' = "raised" /\ exc' = e /\ ret' = None
            /\ ClearLaunch /\ ClearTrack
            /\ acq' = <<>>

Init ==
  /\ Voc \in VocSeeds
  /\ Isc \in IscSeeds
  /\ Vmpp \in VmppSeeds
  /\ Impp = None
  /\ currentCompliance = None
  /\ has_current_compliance \in BOOLEAN
  /\ current_compliance \in IF has_current_compliance
                              THEN {None, Some(ProvisionalCompliance)}
                              ELSE {None}
  /\ t0 = None
  /\ pc = "idle"
  /\ NoFrameL
  /\ dV = 0 /\ tq = <<>> /\ lImpp = 0 /\ lVmpp = None /\ angleMpp = NaN
  /\ v_set = 0 /\ highEdgeTouched = FALSE /\ lowEdgeTouched = FALSE
  /\ v_explore = <<>> /\ i_explore = <<>>
  /\ run_time = 0 /\ time_left = 0 /\ dwell = 0
  /\ ret = None /\ exc = "none"
  /\ vector = <<>> /\ wmp = None
  /\ now = 0 /\ vout = 0 /\ ilast = 0 /\ call = NoCall /\ cbLog = <<>>
  /\ acq = <<>>
  /\ runs = 0 /\ completed = 0 /\ trace = <<>>

---------------------------------------------------------------------------
(* One instrument call: `call' holds the call the latest step made (NoCall
   when it made none); the call returns or raises *)
Logged(o, a, b) == call' = Call(o, a, b)

InstrumentError ==
  /\ Raise("InstrumentError")
  /\ UNCHANGED <<selfVars, wmpVars, now, vout, ilast, cbLog, runs, completed, trace>>

\* variant: a timer started on entry, whatever Voc is
StartTimerOnEntry(voc, t, n) == Some(n)

\* lines 49-52: the timer is started only when Voc is known
StartTimer(voc, t, n) == IF voc = None THEN t ELSE Some(n)

\* lines 44-61: entry of launch_tracker(duration, callback, NPLC)
Launch(d, cb, nplc) ==
  /\ pc \in {"idle", "done", "raised"}
  /\ runs < MaxRuns
  /\ d \in IF runs = 0 THEN Durations ELSE LaterDurations
  /\ runs' = runs + 1
  /\ cbLog' = <<>>
  /\ acq' = <<>>
  /\ t0' = StartTimer(Voc, t0, now)
  /\ UNCHANGED <<Voc, Isc, Impp, currentCompliance, has_current_compliance,
                 current_compliance, wmpVars, now, vout, ilast, completed>>
  /\ call' = NoCall
  /\ IF Voc = None
       THEN \* lines 49-51
            /\ pc' = "done" /\ ret' = Some(<<>>) /\ exc' = "none"
            /\ trace' = <<"Done">>
            /\ ClearLaunch /\ ClearTrack
            /\ UNCHANGED Vmpp
       ELSE /\ Vmpp' = SeedVmpp(Vmpp, Voc)
            /\ IF ~has_current_compliance
                 THEN \* line 57 reads an attribute that was never created
                      /\ Raise("AttributeError")
                      /\ trace' = <<>>
                 ELSE /\ cc' = EffectiveCompliance(current_compliance)
                      /\ duration' = d /\ callback' = cb /\ NPLC' = nplc
                      /\ initial_soak' = 0 /\ q' = <<>>
                      /\ ClearTrack
                      /\ ret' = None /\ exc' = "none"
                      /\ trace' = <<"InitialSoak">>
                      /\ pc' = IF nplc # -1 THEN "setNPLC" ELSE "setupDC"

\* lines 62-63
SetNPLC ==
  /\ pc = "setNPLC"
  /\ Logged("setNPLC", NPLC, 0)
  /\ \/ /\ pc' = "setupDC"
        /\ NPLC' = -1        \* NPLC is not read again: the frame forgets it
        /\ UNCHANGED <<selfVars, duration, callback, cc, initial_soak, q,
                       trackVars, ret, exc, wmpVars, now, vout, ilast,
                       cbLog, acq, runs, completed, trace>>
     \/ InstrumentError

\* lines 65-67
SetupDC ==
  /\ pc = "setupDC"
  /\ Logged("setupDC", Val(Vmpp), cc)
  /\ \/ /\ pc' = "write"
        /\ vout' = Val(Vmpp)
        /\ UNCHANGED <<selfVars, launchVars, trackVars, ret, exc, wmpVars,
                       now, ilast, cbLog, acq, runs, completed, trace>>
     \/ InstrumentError

\* lines 68-74
WriteArm ==
  /\ pc = "write"
  /\ Logged("write", 0, 0)
  /\ \/ /\ pc' = "soak"
        /\ initial_soak' = InitialSoak(duration)
        /\ UNCHANGED <<selfVars, duration, callback, NPLC, cc, q, trackVars,
                       ret, exc, wmpVars, now, vout, ilast, cbLog, acq,
                       runs, completed, trace>>
     \/ InstrumentError

\* lines 75-84 and 100-115: the soak burst, the commits that follow it and
\* the entry of really_dumb_tracker
SoakMeasure ==
  /\ pc = "soak"
  /\ Logged("measureUntil", initial_soak, 0)
  /\ \/ \E over \in Overrun :
          LET t == now + initial_soak + over IN
          \E b \in Bursts(vout, t, ilast) :
            LET impp == Last(b)[2] IN
            /\ now' = t
            /\ ilast' = impp
            /\ q' = b
            /\ acq' = acq \o b
            /\ Impp' = Some(impp)                               \* line 76
            /\ current_compliance' = CommitCompliance(current_compliance, impp)
            /\ Isc' = CommitIsc(Isc, impp)
            /\ dV' = StepSize(Val(Voc))                         \* line 103
            /\ tq' = <<>>                                       \* line 108
            /\ lImpp' = impp                                    \* line 110
            /\ lVmpp' = Vmpp                                    \* line 111
            /\ run_time' = t - Val(t0)                          \* line 115
            /\ pc' = "loop"
            /\ UNCHANGED <<Voc, Vmpp, currentCompliance,
                           has_current_compliance, t0, duration, callback,
                           NPLC, cc, initial_soak, angleMpp, v_set,
                           highEdgeTouched, lowEdgeTouched, v_explore,
                           i_explore, time_left, dwell, ret, exc, wmpVars,
                           vout, cbLog, runs, completed, trace>>
     \/ InstrumentError

\* lines 116-125: the loop test and the start of an exploration
LoopCheck ==
  /\ pc = "loop"
  /\ UNCHANGED <<selfVars, wmpVars, now, vout, ilast, cbLog, runs, completed>>
  /\ call' = NoCall
  /\ IF LoopTest(run_time, duration)
       THEN \/ /\ i_explore' = <<lImpp>>                        \* line 118
               /\ v_explore' = <<Val(lVmpp)>>                   \* line 119
               /\ angleMpp' = Slope(lImpp, Val(lVmpp), Val(Voc), Val(Isc))
               /\ v_set' = Val(lVmpp)                           \* line 123
               /\ highEdgeTouched' = FALSE
               /\ lowEdgeTouched' = FALSE
               /\ trace' = Append(trace, "Exploring")
               /\ pc' = "scan_set"
               /\ UNCHANGED <<launchVars, dV, tq, lImpp, lVmpp, run_time,
                              time_left, dwell, ret, exc, acq>>
            \/ \* line 121 on Python floats
               /\ DivByZero(Val(lVmpp), Val(Isc)) /\ ~IsNp(lVmpp)
               /\ Raise("ZeroDivisionError")
               /\ UNCHANGED trace
       ELSE /\ pc' = "finish"
            /\ UNCHANGED <<launchVars, trackVars, ret, exc, trace, acq>>

\* line 126-127: the scan's loop test passed, the setpoint is commanded.
\* Only the first MaxScan samples of a scan are explored, except under
\* `unbounded', where the scan goes on and what lies past them is not logged.
ScanSetOutputB(unbounded) ==
  /\ pc = "scan_set"
  /\ unbounded \/ Len(v_explore) <= MaxScan
  /\ Logged("setOutput", v_set, 0)
  /\ \/ /\ pc' = "scan_meas"
        /\ vout' = v_set
        /\ UNCHANGED <<selfVars, launchVars, trackVars, ret, exc, wmpVars,
                       now, ilast, cbLog, acq, runs, completed, trace>>
     \/ InstrumentError

ScanSetOutput == ScanSetOutputB(FALSE)

\* lines 128-176 and the loop test of line 126
ScanMeasureB(unbounded) ==
  /\ pc = "scan_meas"
  /\ Logged("measure", 0, 0)
  /\ \/ \E i \in CURRENTS, dt \in MeasureTicks :
          LET t   == IF Len(v_explore) <= MaxScan THEN now + dt ELSE now
              v   == vout
              measurement == <<v, i, t, 0>>
              thisAngle == Slope(i, v, Val(Voc), Val(Isc))      \* line 134
              ang == AngleStep(highEdgeTouched, lowEdgeTouched, dV,
                               dAngleAbove(angleMpp, thisAngle),
                               dAngleBelow(angleMpp, thisAngle))
              bnd == BoundaryStep(v_set, ang[3], ang[1], ang[2], Val(Voc))
              est == EstimateAfterSample(lVmpp, lImpp, v, i)
          IN
          /\ now' = t
          /\ ilast' = i
          /\ \/ /\ IF Len(v_explore) <= MaxScan
                     THEN /\ tq' = Append(tq, measurement)      \* line 130
                          /\ acq' = Append(acq, measurement)
                          /\ i_explore' = Append(i_explore, i)  \* line 132
                          /\ v_explore' = Append(v_explore, v)  \* line 133
                     ELSE UNCHANGED <<tq, acq, i_explore, v_explore>>
                /\ lVmpp' = est[1]
                /\ lImpp' = est[2]
                /\ v_set' = bnd[1]
                /\ dV' = bnd[2]
                /\ highEdgeTouched' = bnd[3]
                /\ lowEdgeTouched' = bnd[4]
                /\ pc' = IF bnd[3] /\ bnd[4] THEN "scan_end" ELSE "scan_set"
                /\ UNCHANGED <<launchVars, angleMpp, run_time, time_left,
                               dwell, ret, exc>>
             \/ \* line 134 on Python floats
                /\ DivByZero(v, Val(Isc))
                /\ Raise("ZeroDivisionError")
          /\ UNCHANGED <<selfVars, wmpVars, vout, cbLog, runs, completed, trace>>
     \/ InstrumentError

ScanMeasure == ScanMeasureB(FALSE)

\* lines 178-196: the new Mpp, then the deadline test
ScanEnd ==
  /\ pc = "scan_end"
  /\ LET p_explore == [k \in 1..Len(v_explore) |->
                         Power(<<v_explore[k], i_explore[k]>>)] \* line 181
         maxIndex == ArgMax(p_explore)                          \* line 182
         rt == now - Val(t0)                                    \* line 192
         tl == duration - rt                                    \* line 193
     IN
     /\ lVmpp' = Np(v_explore[maxIndex])                        \* line 183
     /\ lImpp' = i_explore[maxIndex]                            \* line 184
     /\ run_time' = rt
     /\ time_left' = tl
     /\ pc' = AfterScan(tl)
     /\ trace' = IF AfterScan(tl) = "dwell_set"
                   THEN Append(trace, "Dwelling") ELSE trace
  /\ UNCHANGED <<selfVars, launchVars, dV, tq, angleMpp, v_set,
                 highEdgeTouched, lowEdgeTouched, v_explore, i_explore,
                 dwell, ret, exc, wmpVars, now, vout, ilast, cbLog, acq, runs,
                 completed>>
  /\ call' = NoCall

\* lines 198-204
DwellSetOutput ==
  /\ pc = "dwell_set"
  /\ Logged("setOutput", Val(lVmpp), 0)
  /\ \/ /\ pc' = "dwell_meas"
        /\ vout' = Val(lVmpp)
        /\ dwell' = DwellLength(time_left)
        /\ UNCHANGED <<selfVars, launchVars, dV, tq, lImpp, lVmpp, angleMpp,
                       v_set, highEdgeTouched, lowEdgeTouched, v_explore,
                       i_explore, run_time, time_left, ret, exc, wmpVars,
                       now, ilast, cbLog, acq, runs, completed, trace>>
     \/ InstrumentError

\* lines 206-214
DwellMeasure ==
  /\ pc = "dwell_meas"
  /\ Logged("measureUntil", dwell, IF callback THEN 1 ELSE 0)
  /\ \/ \E over \in Overrun :
          LET t == now + dwell + over IN
          \E dq \in Bursts(vout, t, ilast) :
            /\ now' = t
            /\ ilast' = Last(dq)[2]
            /\ cbLog' = IF callback THEN cbLog \o dq ELSE cbLog \* line 208
            /\ lImpp' = Last(dq)[2]                             \* line 211
            /\ tq' = tq \o dq                                   \* line 212
            /\ acq' = acq \o dq
            /\ run_time' = t - Val(t0)                          \* line 214
            /\ pc' = "loop"
            /\ UNCHANGED <<selfVars, launchVars, dV, lVmpp, angleMpp, v_set,
                           highEdgeTouched, lowEdgeTouched, v_explore,
                           i_explore, time_left, dwell, ret, exc, wmpVars,
                           vout, runs, completed, trace>>
     \/ InstrumentError

\* lines 216-218 and 86-92: the loop has ended, both functions return
Finish ==
  /\ pc = "finish"
  /\ Impp' = Some(lImpp)                                        \* line 216
  /\ Vmpp' = lVmpp                                              \* line 217
  /\ ret' = Some(History(q, tq))                                \* lines 90-92
  /\ pc' = "done"
  /\ trace' = Append(trace, "Done")
  /\ ClearLaunch /\ ClearTrack
  /\ UNCHANGED <<Voc, Isc, currentCompliance, has_current_compliance,
                 current_compliance, t0, exc, wmpVars, now, vout, ilast, cbLog,
                 acq, runs>>
  /\ completed' = completed + 1
  /\ call' = NoCall

\* lines 21-28: reset() binds None to six local names and returns; no
\* attribute of the object is written
Reset ==
  /\ pc \in {"idle", "done", "raised"}
  /\ pc' = "idle"
  /\ ret' = None /\ exc' = "none"
  /\ call' = NoCall
  /\ cbLog' = <<>> /\ acq' = <<>> /\ trace' = <<>>
  /\ UNCHANGED <<selfVars, launchVars, trackVars, wmpVars, now, vout, ilast,
                 runs, completed>>

Next ==
  \/ \E d \in Durations, cb \in BOOLEAN, nplc \in NPLCs : Launch(d, cb, nplc)
  \/ Reset
  \/ SetNPLC
  \/ SetupDC
  \/ WriteArm
  \/ SoakMeasure
  \/ LoopCheck
  \/ ScanSetOutput
  \/ ScanMeasure
  \/ ScanEnd
  \/ DwellSetOutput
  \/ DwellMeasure
  \/ Finish

Spec == Init /\ [][Next]_vars

---------------------------------------------------------------------------
(* which_max_power as an operation of its own: it is applied to a vector of
   raw measurements, the tracker being idle *)
WmpVoltages == {40, 42, 44}
WmpCurrents == {-36, -35, -30, 0}
WmpSamples  == { <<v, i, 0, 0>> : v \in WmpVoltages, i \in WmpCurrents }
Vectors     == UNION { [1..n -> WmpSamples] : n \in 1..MaxVec }

InitWMP ==
  /\ Voc = None /\ Isc = None /\ Vmpp = None /\ Impp = None
  /\ currentCompliance = None
  /\ has_current_compliance = FALSE /\ current_compliance = None
  /\ t0 = None
  /\ pc = "idle"
  /\ NoFrameL
  /\ dV = 0 /\ tq = <<>> /\ lImpp = 0 /\ lVmpp = None /\ angleMpp = NaN
  /\ v_set = 0 /\ highEdgeTouched = FALSE /\ lowEdgeTouched = FALSE
  /\ v_explore = <<>> /\ i_explore = <<>>
  /\ run_time = 0 /\ time_left = 0 /\ dwell = 0
  /\ ret = None /\ exc = "none"
  /\ vector \in Vectors /\ wmp = None
  /\ now = 0 /\ vout = 0 /\ ilast = 0 /\ call = NoCall /\ cbLog = <<>>
  /\ acq = <<>>
  /\ runs = 0 /\ completed = 0 /\ trace = <<>>

WhichMaxPower ==
  /\ pc = "idle"
  /\ wmp = None
  /\ wmp' = Some(which_max_power(vector))
  /\ UNCHANGED <<selfVars, pc, launchVars, trackVars, ret, exc, vector,
                 instVars, runs, completed, trace>>

NextWMP == WhichMaxPower

SpecWMP == InitWMP /\ [][NextWMP]_vars

---------------------------------------------------------------------------
(* The tracker with unbounded scans, for termination.  The program is
   sequential and every instrument call returns, so a step that can be taken
   is eventually taken: weak fairness of the next-state relation. *)
InitLive ==
  /\ Init
  /\ Voc # None
  /\ has_current_compliance /\ current_compliance = None
  /\ Isc = None
  /\ Vmpp \in {None, Some(3000)}

ScanSetOutputLive == ScanSetOutputB(TRUE)
ScanMeasureLive   == ScanMeasureB(TRUE)

NextLive ==
  \/ \E nplc \in NPLCs : Launch(5, TRUE, nplc)
  \/ SetNPLC
  \/ SetupDC
  \/ WriteArm
  \/ SoakMeasure
  \/ LoopCheck
  \/ ScanSetOutputLive
  \/ ScanMeasureLive
  \/ ScanEnd
  \/ DwellSetOutput
  \/ DwellMeasure
  \/ Finish

LiveSpec == InitLive /\ [][NextLive]_vars /\ WF_vars(NextLive)

---------------------------------------------------------------------------
(* Properties of launch_tracker and really_dumb_tracker, checked under Spec *)

\* C1: a launch_tracker call made while Voc is None returns the empty
\* sequence at once, makes no instrument call, and leaves Vmpp, Impp, Isc,
\* the compliance and t0 (and the instrument) as they were.
C1_NoVocNoRun ==
  [][ (Voc = None /\ runs' = runs + 1) =>
        /\ pc' = "done" /\ ret' = Some(<<>>) /\ exc' = "none"
        /\ call' = NoCall
        /\ UNCHANGED <<Voc, Vmpp, Impp, Isc, currentCompliance,
                       has_current_compliance, current_compliance, t0,
                       now, vout, ilast>> ]_vars

C1_Witness ==
  /\ Voc = None /\ pc = "done" /\ runs = 2 /\ ret = Some(<<>>)
  /\ Vmpp = Some(10) /\ Isc = Some(-33) /\ Impp = None /\ t0 = None
  /\ call = NoCall

\* C2: the phases of a run come in the order InitialSoak (once, first), then
\* Exploring and Dwelling in strict alternation starting with Exploring, then
\* Done: a Dwelling comes right after an Exploring, an Exploring right after
\* the InitialSoak or a Dwelling, and nothing follows Done.  A run with Voc
\* known that returns has gone through InitialSoak and ends in Done.
C2_PhaseOrder ==
  /\ \A k \in 1..Len(trace) :
       /\ trace[k] = "InitialSoak" => k = 1
       /\ trace[k] = "Exploring" =>
            k > 1 /\ trace[k - 1] \in {"InitialSoak", "Dwelling"}
       /\ trace[k] = "Dwelling" => k > 1 /\ trace[k - 1] = "Exploring"
       /\ trace[k] = "Done" => k = Len(trace)
  /\ (Voc # None /\ pc \notin {"idle", "raised"}) =>
       Len(trace) >= 1 /\ trace[1] = "InitialSoak"
  /\ (Voc # None /\ pc = "done") => trace[Len(trace)] = "Done"
  /\ (Voc # None /\ pc \notin {"idle", "raised", "done"}) =>
       trace[Len(trace)] # "Done"
  /\ (pc \in {"scan_set", "scan_meas", "scan_end"}) =>
       trace[Len(trace)] = "Exploring"
  /\ (pc \in {"dwell_set", "dwell_meas"}) => trace[Len(trace)] = "Dwelling"

C2_Witness ==
  /\ pc = "done"
  /\ trace = <<"InitialSoak", "Exploring", "Dwelling", "Exploring", "Done">>

\* C3: with Voc > 0 and Vmpp unset or seeded inside [0, Voc], every voltage
\* commanded to the instrument (setupDC setpoint, scan and dwell setOutput)
\* lies in [0, Voc], and so does the Vmpp estimate, in the object and in the
\* tracker's frame.
C3_SetpointsInRange ==
  (Voc # None /\ Val(Voc) > 0) =>
    /\ call.op \in {"setupDC", "setOutput"} =>
         0 <= call.arg /\ call.arg <= Val(Voc)
    /\ 0 <= vout /\ vout <= Val(Voc)
    /\ Vmpp # None => 0 <= Val(Vmpp) /\ Val(Vmpp) <= Val(Voc)
    /\ lVmpp # None => 0 <= Val(lVmpp) /\ Val(lVmpp) <= Val(Voc)

C3_Witness ==
  /\ pc = "scan_meas" /\ call = Call("setOutput", 10, 0)
  /\ lowEdgeTouched /\ ~highEdgeTouched /\ dV > 0
  /\ v_explore = <<10, 10>>

\* C5: a run on a tracker whose only seeded field is Voc (the compliance
\* attribute was never created) does not fail: Vmpp is seeded to 0.7 Voc, the
\* soak is set up with the provisional compliance, and after the soak the
\* compliance is 2|Impp| and Isc is 1.1 Impp.
C5_FreshTrackerRuns ==
  (Voc # None /\ ~has_current_compliance /\ runs >= 1) =>
    /\ exc # "AttributeError"
    /\ pc # "raised" \/ exc = "InstrumentError" \/ exc = "ZeroDivisionError"
    /\ Vmpp # None
    /\ pc \in {"setNPLC", "setupDC", "write", "soak"} =>
         cc = ProvisionalCompliance
    /\ pc = "loop" /\ tq = <<>> =>
         /\ current_compliance = Some(Abs(2 * Val(Impp)))
         /\ Isc # None

\* C6: when a callback is given, it has been called on every sample of the
\* history the run is about to return, in acquisition order.
C6_CallbackOnEverySample ==
  (pc = "finish" /\ callback) => cbLog = q \o tq

\* C7: a dwell burst is requested with length min(dwell_time, time_left),
\* time_left being duration minus the elapsed run time, so the length is
\* positive and at most dwell_time; when time_left <= 0 after a scan the
\* dwell is skipped: no setOutput, no measureUntil, and the run returns.
C7_DwellLength ==
  [][ /\ pc = "scan_end" => time_left' = duration - (now - Val(t0))
      /\ pc = "dwell_meas" =>
           /\ call'.op = "measureUntil"
           /\ call'.arg = IF dwell_time < time_left THEN dwell_time
                                                    ELSE time_left
           /\ call'.arg > 0 /\ call'.arg <= dwell_time
      /\ (pc = "scan_end" /\ duration - (now - Val(t0)) <= 0) =>
           pc' = "finish" /\ call' = NoCall
      /\ pc = "finish" => pc' = "done" /\ call' = NoCall ]_vars

C7_Witness ==
  /\ pc = "loop" /\ call.op = "measureUntil" /\ tq # <<>>
  /\ duration = 20 /\ time_left = 14 /\ call.arg = 14

C10_NoReseed ==
  [][ completed >= 1 =>
        /\ Isc' = Isc
        /\ current_compliance' = current_compliance
        /\ runs' = runs + 1 =>
             /\ Vmpp' = Vmpp
             /\ current_compliance # None
             /\ pc' \in {"setNPLC", "setupDC"}
             /\ cc' = Val(current_compliance) ]_vars

C10_Witness ==
  /\ completed = 2 /\ pc = "done"
  /\ Isc = Some(-22) /\ current_compliance = Some(40) /\ Impp = Some(-30)

\* C11: the sequence launch_tracker returns is exactly the samples the
\* instrument delivered during the run, in acquisition order and each once:
\* the soak's samples first, then scan and dwell samples as they came; while
\* the run goes on the history only grows at its end.
C11_HistoryInOrder ==
  /\ [](pc \notin {"idle", "done", "raised"} => q \o tq = acq)
  /\ []((pc = "done" /\ Voc # None) => Val(ret) = acq)
  /\ [](\A k \in 1..(Len(acq) - 1) : acq[k][3] <= acq[k + 1][3])
  /\ [][ /\ (pc \notin {"idle", "done", "raised"} /\
             pc' \notin {"done", "raised"}) =>
               /\ Len(q' \o tq') >= Len(q \o tq)
               /\ SubSeq(q' \o tq', 1, Len(q \o tq)) = q \o tq
         /\ pc = "finish" => ret' = Some(q \o tq) ]_vars

C11_Witness ==
  /\ pc = "done" /\ Voc # None /\ Len(trace) = 5
  /\ Len(Val(ret)) = 6
  /\ Val(ret)[1][3] = 50 /\ Val(ret)[2][3] = 50 /\ Val(ret)[3][3] = 52
  /\ Val(ret)[4][3] = 102 /\ Val(ret)[5][3] = 102 /\ Val(ret)[6][3] = 104

\* C12: the Mpp estimate is frozen within a cycle: a scan step changes
\* neither Vmpp nor Impp nor angleMpp, a dwell step does not change Vmpp;
\* the tracker's Vmpp is written only when a scan has ended, its Impp only
\* then or when a dwell burst has ended, and the object's Vmpp and Impp are
\* not written while the tracker runs.
C12_EstimateFrozen ==
  [][ /\ (pc \in {"scan_set", "scan_meas"} /\ pc' # "raised") =>
           lVmpp' = lVmpp /\ lImpp' = lImpp /\ angleMpp' = angleMpp
      /\ (pc \in {"dwell_set", "dwell_meas"} /\ pc' # "raised") =>
           lVmpp' = lVmpp
      /\ (pc \in {"loop", "scan_set", "scan_meas", "scan_end", "dwell_set",
                  "dwell_meas"} /\ pc' # "raised") =>
           /\ lVmpp' # lVmpp => pc = "scan_end"
           /\ lImpp' # lImpp => pc \in {"scan_end", "dwell_meas"}
      /\ pc \in {"loop", "scan_set", "scan_meas", "scan_end", "dwell_set",
                 "dwell_meas"} => Vmpp' = Vmpp /\ Impp' = Impp ]_vars

C12_Witness ==
  /\ pc = "scan_set" /\ Len(v_explore) = 3
  /\ vout # Val(lVmpp) /\ ilast # lImpp
  /\ v_explore[1] = Val(lVmpp) /\ i_explore[1] = lImpp

\* C13: when a run with Voc known returns, self.Vmpp is the voltage the last
\* completed scan selected (the first maximum of its buffer) and self.Impp
\* is the current of the last sample of the final dwell if a dwell came
\* last, the current that scan selected otherwise; when no scan ran both are
\* the values after the soak.
C13_FinalEstimate ==
  [][ pc = "finish" =>
        LET n == Len(v_explore)
            last == trace[Len(trace)]
        IN  /\ last = "InitialSoak" =>
                 /\ Vmpp' = Vmpp /\ Impp' = Impp
                 /\ Val(Impp') = q[Len(q)][2]
            /\ last # "InitialSoak" =>
                 \E k \in 1..n :
                   /\ \A j \in 1..n :
                        -(v_explore[j] * i_explore[j]) <=
                          -(v_explore[k] * i_explore[k])
                   /\ \A j \in 1..(k - 1) :
                        -(v_explore[j] * i_explore[j]) <
                          -(v_explore[k] * i_explore[k])
                   /\ Val(Vmpp') = v_explore[k]
                   /\ Val(Impp') = IF last = "Dwelling" THEN tq[Len(tq)][2]
                                                        ELSE i_explore[k] ]_vars

C13_Witness ==
  /\ pc = "done" /\ completed = 1
  /\ trace = <<"InitialSoak", "Exploring", "Dwelling", "Done">>
  /\ Len(Val(ret)) = 4
  /\ Val(ret)[2][2] = -30 /\ Val(ret)[3][2] = -30 /\ Val(ret)[4][2] = -20
  /\ Val(Vmpp) = 3000 /\ Impp = Some(-20)

\* C14: when an instrument operation fails during a run, the failure
\* reaches the caller (the call ends with the exception and returns nothing)
\* and the run makes no further instrument call: the operation is not tried
\* again and no later phase is entered; only a new launch_tracker or reset
\* call follows.
C14_FailurePropagates ==
  [][ /\ exc' = "InstrumentError" =>
           /\ pc' = "raised" /\ ret' = None
           /\ pc # "raised" => call'.op # "none"
      /\ pc = "raised" =>
           /\ runs' = runs + 1 \/ pc' = "idle"
           /\ pc' = "idle" => call' = NoCall
           /\ (runs' = runs + 1 /\ Voc = None) => call' = NoCall ]_vars

C14_Witness ==
  /\ pc = "raised" /\ exc = "InstrumentError"
  /\ call = Call("measureUntil", 2, 1)
  /\ Impp = Some(-30) /\ now = 3

\* C15: when the walk toward Voc advances v_set to Voc or beyond, the
\* boundary step marks only the high edge (the low flag keeps the value the
\* angle criterion left it), inverts dV once so that it is negative, and
\* leaves v_set strictly below Voc; likewise at 0 only the low edge is
\* marked, dV ends positive and v_set strictly above 0.
C15_BoundaryMarksOneEdge ==
  [][ (pc = "scan_meas" /\ pc' \in {"scan_set", "scan_end"}) =>
        LET thisAngle == Slope(ilast', vout, Val(Voc), Val(Isc))
            ang == AngleStep(highEdgeTouched, lowEdgeTouched, dV,
                             dAngleAbove(angleMpp, thisAngle),
                             dAngleBelow(angleMpp, thisAngle))
            adv == v_set + ang[3]
        IN  /\ (ang[3] > 0 /\ adv >= Val(Voc)) =>
                 /\ highEdgeTouched' /\ lowEdgeTouched' = ang[2]
                 /\ dV' = -ang[3]
                 /\ v_set' < Val(Voc)
            /\ (ang[3] < 0 /\ adv <= 0) =>
                 /\ lowEdgeTouched' /\ highEdgeTouched' = ang[1]
                 /\ dV' = -ang[3]
                 /\ v_set' > 0 ]_vars

\* C16: a scan that has ended without coming within one step of 0 or Voc
\* (so that its boundary check never fired) has commanded a setpoint strictly
\* above and a setpoint strictly below the Vmpp it started from.
C16_ScanBrackets ==
  (/\ pc = "scan_end"
   /\ \A k \in 1..Len(v_explore) :
        Abs(dV) < v_explore[k] /\ v_explore[k] < Val(Voc) - Abs(dV)) =>
    /\ \E k \in 2..Len(v_explore) : v_explore[k] > v_explore[1]
    /\ \E k \in 2..Len(v_explore) : v_explore[k] < v_explore[1]

\* C17: the buffer a scan selects from is its starting estimate followed by
\* exactly the samples measured during that scan (the latest entries of the
\* tracker's history), and the new Vmpp and Impp are the voltage and current
\* of the first element of that buffer whose power -(V*I) is at least the
\* power of every element.
C17_ScanSelection ==
  /\ [](pc \in {"scan_set", "scan_meas", "scan_end"} =>
          LET n == Len(v_explore)
          IN  /\ n >= 1 /\ Len(i_explore) = n /\ n - 1 <= Len(tq)
              /\ v_explore[1] = Val(lVmpp) /\ i_explore[1] = lImpp
              /\ \A k \in 2..n :
                   /\ v_explore[k] = tq[Len(tq) - n + k][1]
                   /\ i_explore[k] = tq[Len(tq) - n + k][2]
              /\ \A k \in 2..n :
                   tq[Len(tq) - n + k][3] > now - 2 * (n - 1))
  /\ [][ pc = "loop" /\ pc' = "scan_set" => Len(v_explore') = 1 ]_vars
  /\ [][ pc = "scan_end" =>
           \E k \in 1..Len(v_explore) :
             /\ \A j \in 1..Len(v_explore) :
                  -(v_explore[j] * i_explore[j]) <=
                    -(v_explore[k] * i_explore[k])
             /\ \A j \in 1..(k - 1) :
                  -(v_explore[j] * i_explore[j]) <
                    -(v_explore[k] * i_explore[k])
             /\ Val(lVmpp') = v_explore[k]
             /\ lImpp' = i_explore[k] ]_vars

C17_Witness ==
  /\ pc = "dwell_set" /\ Len(v_explore) = 3 /\ Len(tq) = 2
  /\ Val(lVmpp) = v_explore[3] /\ lImpp = i_explore[3]
  /\ v_explore[3] # v_explore[1]
  /\ -(v_explore[3] * i_explore[3]) > -(v_explore[2] * i_explore[2])
  /\ -(v_explore[3] * i_explore[3]) > -(v_explore[1] * i_explore[1])

\* C18: the deadline is tested at phase boundaries only: a scan is started
\* only while the elapsed run time is below duration (after the soak as
\* after a dwell), at or past the deadline the loop ends instead, and once a
\* scan has started its steps lead only to further scan steps or to the
\* scan's end, the run time and time left not being taken again meanwhile.
C18_DeadlineAtBoundaries ==
  [][ /\ (pc = "loop" /\ pc' = "scan_set") => now - Val(t0) < duration
      /\ (pc = "loop" /\ now - Val(t0) >= duration) => pc' = "finish"
      /\ pc \in {"scan_set", "scan_meas"} =>
           /\ pc' \in {"scan_set", "scan_meas", "scan_end", "raised"}
           /\ pc' # "raised" =>
                run_time' = run_time /\ time_left' = time_left ]_vars

C18_Witness ==
  /\ pc = "scan_meas" /\ duration = 5
  /\ now - Val(t0) >= duration /\ run_time < duration
  /\ Len(v_explore) = 3

\* C19 as stated: throughout a run |dV| is Voc/301, a scan starts with the
\* dV the previous one ended with, and two setpoints commanded one after the
\* other within a scan differ by exactly |dV|.
C19_StepExact ==
  /\ [](pc \in {"loop", "scan_set", "scan_meas", "scan_end", "dwell_set",
                "dwell_meas", "finish"} =>
          Abs(dV) = Val(Voc) \div StepDivisor)
  /\ [][ (pc = "loop" /\ pc' = "scan_set") => dV' = dV ]_vars
  /\ [][ (pc = "scan_meas" /\ pc' = "scan_set") =>
           Abs(v_set' - v_set) = Abs(dV) ]_vars

\* C19: throughout a run |dV| is Voc/301, only its sign changing and only in
\* scan steps; a scan starts with the dV the previous one ended with; two
\* setpoints commanded one after the other within a scan differ by exactly
\* |dV|, except that after a bounce off the 0 V boundary the setpoint just
\* measured is commanded again.
C19_StepOrRepeat ==
  /\ [](pc \in {"loop", "scan_set", "scan_meas", "scan_end", "dwell_set",
                "dwell_meas", "finish"} =>
          Abs(dV) = Val(Voc) \div StepDivisor)
  /\ [][ (pc \in {"loop", "scan_set", "scan_end", "dwell_set",
                  "dwell_meas"} /\ pc' # "raised") => dV' = dV ]_vars
  /\ [][ (pc = "scan_meas" /\ pc' = "scan_set") =>
           \/ Abs(v_set' - v_set) = Abs(dV)
           \/ /\ v_set' = v_set
              /\ v_set - Abs(dV) <= 0
              /\ lowEdgeTouched' /\ dV' > 0 ]_vars

C19_Witness ==
  /\ pc = "scan_set" /\ Len(v_explore) = 2
  /\ v_set = 10 /\ vout = 10 /\ dV = 10
  /\ lowEdgeTouched /\ ~highEdgeTouched

\* C20: after one or more runs followed by reset(), Voc, Isc, Vmpp, Impp,
\* the compliance and t0 are all None, so that the next launch_tracker call
\* returns the empty sequence without an instrument call.
C20_ResetUnseeds ==
  /\ [](pc = "idle" /\ runs >= 1 =>
          /\ Voc = None /\ Isc = None /\ Vmpp = None /\ Impp = None
          /\ current_compliance = None /\ t0 = None)
  /\ [][ (pc = "idle" /\ runs >= 1 /\ runs' = runs + 1) =>
           pc' = "done" /\ ret' = Some(<<>>) /\ call' = NoCall ]_vars

---------------------------------------------------------------------------
(* Property of which_max_power, checked under SpecWMP *)

\* C9: for a non-empty vector which_max_power returns <<Pmax, Vmpp, Impp,
\* index>>, index being the first position whose power -(V*I) is at least
\* that of every sample, Pmax that power, Vmpp and Impp the voltage and the
\* current at that position; the vector is left as it was.
C9_WhichMaxPower ==
  [][ wmp' # wmp =>
        LET r   == Val(wmp')
            n   == Len(vector)
            idx == r[4] + 1
        IN  /\ vector' = vector
            /\ idx \in 1..n
            /\ \A k \in 1..n : -(vector[k][1] * vector[k][2]) <= r[1]
            /\ \A k \in 1..(idx - 1) : -(vector[k][1] * vector[k][2]) < r[1]
            /\ r[1] = -(vector[idx][1] * vector[idx][2])
            /\ r[2] = vector[idx][1]
            /\ r[3] = vector[idx][2] ]_vars

C9_Witness ==
  /\ vector = << <<40, -35, 0, 0>>, <<42, -36, 0, 0>>, <<44, -30, 0, 0>> >>
  /\ wmp = Some(<<1512, 42, -36, 1>>)

---------------------------------------------------------------------------
(* Property of the exploration scan, checked under LiveSpec *)

\* C4: every exploration scan eventually ends (with both edges touched, or
\* with an exception), whatever currents the instrument measures.
C4_ScanTerminates ==
  /\ (pc = "scan_set") ~> (pc = "scan_end" \/ pc = "raised")
  /\ [](pc = "scan_end" => highEdgeTouched /\ lowEdgeTouched)

=============================================================================
